---------------------------- MODULE Spec2Model ----------------------------
(***************************************************************************)
(* A model of two components of the UI5 builder:                           *)
(*                                                                         *)
(*   - ResolvedBundleDefinition.createModuleInfo (the bundle resolver),    *)
(*   - XMLTemplateAnalyzer (the markup dependency analyzer).               *)
(*                                                                         *)
(* Both run on a single JavaScript thread.  A synchronous piece of code    *)
(* (a call, a promise callback) is one atomic action; the settling of a    *)
(* pool promise is a separate action, so that every completion order of    *)
(* the outstanding pool calls is a behaviour of the model.                 *)
(*                                                                         *)
(* Strings are modelled as sequences: a module name of the bundle resolver *)
(* is the sequence of its UTF-16 code units (Array.prototype.sort compares *)
(* them), a name handled by the analyzer is a sequence of tokens (so that  *)
(* concatenation and the replacement of "." by "/" are computed).          *)
(***************************************************************************)
EXTENDS Integers, Sequences, FiniteSets, TLC

VARIABLES
    \* ---- bundle resolver ----
    sectionDefs,      \* heap of section definitions: id -> [mode, modules]
    bundleDefinition, \* bundleDefinition.sections: sequence of section ids
    sections,         \* ResolvedBundleDefinition.sections (ResolvedSection objects)
    bundleInfo,       \* the ModuleInfo created by createModuleInfo
    pc,               \* state of the promise chain of createModuleInfo
    cur,              \* index of the section whose callback runs next / is awaited
    lookups,          \* the pool.getModuleInfo calls issued so far
    allRejected,      \* the call whose rejection rejected the current Promise.all (<<>>: none)
    result,           \* settlement of the promise createModuleInfo returned
    bundleLog,        \* history: writes to bundleInfo, tagged with their section
    \* ---- analyzer ----
    busy,             \* this.busy
    info,             \* this.info (an index into infos, 0: not set)
    conditional,      \* this.conditional
    promises,         \* this.promises: indices into finds
    finds,            \* the pool.findResource calls issued so far, with their callbacks
    infos,            \* the ModuleInfo objects handed to the analyzer
    calls,            \* history: one record per analyzeView/analyzeFragment call
    depLog            \* history: addDependency calls made by lookup callbacks

bundleVars == <<sectionDefs, bundleDefinition, sections, bundleInfo, pc, cur,
                lookups, allRejected, result, bundleLog>>
analyzerVars == <<busy, info, conditional, promises, finds, infos, calls, depLog>>
vars == <<bundleVars, analyzerVars>>

-----------------------------------------------------------------------------
(* Bounds of the model *)

\* a bundle definition has at most MaxSections sections ...
MaxSections == 2
\* ... listing at most MaxModules module names in total
MaxModules == 2
\* a generated markup tree has at most MaxNodes nodes
MaxNodes == 3
\* at most MaxCalls calls of analyzeView/analyzeFragment on one analyzer instance
MaxCalls == 2

-----------------------------------------------------------------------------
(* Sequence helpers *)

Range(s) == {s[i] : i \in 1..Len(s)}

RECURSIVE SumLen(_)
SumLen(ss) == IF ss = <<>> THEN 0 ELSE Len(Head(ss)) + SumLen(Tail(ss))

SeqsUpTo(S, n) == UNION {[1..k -> S] : k \in 0..n}

-----------------------------------------------------------------------------
(* ModuleInfo (lib/lbt/resources/ModuleInfo.js is not part of the sources; *)
(* modelled from the data model of the specification)                      *)

NewModuleInfo(name) ==
    [name |-> name, dependencies |-> {}, conditionalDeps |-> {},
     implicit |-> {}, rawModule |-> FALSE, subModules |-> <<>>]

\* addDependency(dependency, conditional): self references are dropped, the
\* first write sets the conditional flag, a later unconditional write clears it
AddDependency(mi, dep, cond) ==
    IF dep = mi.name THEN mi
    ELSE IF dep \in mi.dependencies
    THEN [mi EXCEPT !.conditionalDeps =
                IF cond THEN @ ELSE @ \ {dep}]
    ELSE [mi EXCEPT !.dependencies = @ \cup {dep},
                    !.conditionalDeps = IF cond THEN @ \cup {dep} ELSE @]

\* mutant: the modules of a Require section are recorded as conditional
AddDependenciesConditional(mi, mods) ==
    [mi EXCEPT !.dependencies = @ \cup Range(mods),
               !.conditionalDeps = @ \cup Range(mods)]

\* mutant: the modules of a Require section are not recorded for a bundle that
\* is already marked as raw
AddDependenciesUnlessRaw(mi, mods) ==
    IF mi.rawModule THEN mi
    ELSE [mi EXCEPT !.dependencies = @ \cup (Range(mods) \ {mi.name})]

\* modules.forEach( (module) => info.addDependency(module) )
RECURSIVE AddDependencies(_, _)
AddDependencies(mi, mods) ==
    IF mods = <<>> THEN mi
    ELSE AddDependencies(AddDependency(mi, Head(mods), FALSE), Tail(mods))

\* addImplicitDependency(dependency)
AddImplicitDependency(mi, dep) ==
    [AddDependency(mi, dep, FALSE) EXCEPT !.implicit = @ \cup {dep}]

\* addSubModule(subinfo): appends to the ordered list of submodules
AddSubModule(mi, subname) ==
    [mi EXCEPT !.subModules = Append(@, subname)]

-----------------------------------------------------------------------------
(* Bundle resolver: src/unnamed/part_000 *)

\* SectionType of ./BundleDefinition
SectionType == [Provided |-> "provided", Require |-> "require",
                Raw |-> "raw", Preload |-> "preload"]
Modes == {SectionType.Provided, SectionType.Require,
          SectionType.Raw, SectionType.Preload}

\* UI5ClientConstants (lib/lbt/UI5ClientConstants.js is not part of the sources):
\* the designated core module "sap/ui/core/Core.js" and the designated legacy
\* global module "jquery.sap.global.js", as sequences of UTF-16 code units
MODULE__SAP_UI_CORE_CORE ==
    <<115, 97, 112, 47, 117, 105, 47, 99, 111, 114, 101, 47, 67, 111, 114, 101,
      46, 106, 115>>
MODULE__JQUERY_SAP_GLOBAL ==
    <<106, 113, 117, 101, 114, 121, 46, 115, 97, 112, 46, 103, 108, 111, 98, 97,
      108, 46, 106, 115>>

\* module names, as sequences of UTF-16 code units: the two designated
\* modules and "B"
ModuleNames == {MODULE__SAP_UI_CORE_CORE, MODULE__JQUERY_SAP_GLOBAL, <<66>>}
BundleName == <<120>>

\* the comparison of Array.prototype.sort without a comparator: strings are
\* compared by their code units, a proper prefix sorts first
RECURSIVE StrLess(_, _)
StrLess(a, b) ==
    IF b = <<>> THEN FALSE
    ELSE IF a = <<>> THEN TRUE
    ELSE IF Head(a) # Head(b) THEN Head(a) < Head(b)
    ELSE StrLess(Tail(a), Tail(b))

RECURSIVE Insert(_, _)
Insert(x, s) ==
    IF s = <<>> THEN <<x>>
    ELSE IF StrLess(x, Head(s)) THEN <<x>> \o s
    ELSE <<Head(s)>> \o Insert(x, Tail(s))

\* modules.sort() (stable, ascending)
RECURSIVE Sort(_)
Sort(s) == IF s = <<>> THEN <<>> ELSE Insert(s[Len(s)], Sort(SubSeq(s, 1, Len(s) - 1)))

\* ResolvedSection.mode: read through to the section definition
SectionMode(section) == sectionDefs[section.sectionDefinition].mode

\* section.modules: the ordered module names of the section
SectionModules(section) == section.modules

\* new ResolvedSection(bundle, sectionDefinition)
ResolvedSection(id) ==
    [sectionDefinition |-> id, modules |-> sectionDefs[id].modules]

\* the ResolvedBundleDefinition constructor: one ResolvedSection per section
\* of the definition, in order
ResolveSections(defSections) ==
    [i \in 1..Len(defSections) |-> ResolvedSection(defSections[i])]

\* get containsCore(), on the ResolvedBundleDefinition this
containsCore(this) ==
    \E i \in 1..Len(this.sections) :
        LET section == this.sections[i]
        IN  /\ ( SectionMode(section) = SectionType.Raw
                 \/ SectionMode(section) = SectionType.Require )
            /\ \E j \in 1..Len(SectionModules(section)) :
                   SectionModules(section)[j] = MODULE__SAP_UI_CORE_CORE

\* get containsGlobal()
containsGlobal(this) ==
    \E i \in 1..Len(this.sections) :
        LET section == this.sections[i]
        IN  /\ SectionMode(section) = SectionType.Raw
            /\ \E j \in 1..Len(SectionModules(section)) :
                   SectionModules(section)[j] = MODULE__JQUERY_SAP_GLOBAL

\* executes(moduleName)
executes(this, moduleName) ==
    \E i \in 1..Len(this.sections) :
        LET section == this.sections[i]
        IN  /\ ( SectionMode(section) = SectionType.Raw
                 \/ SectionMode(section) = SectionType.Require )
            /\ \E j \in 1..Len(SectionModules(section)) :
                   SectionModules(section)[j] = moduleName

\* the ResolvedBundleDefinition object
This ==
    [bundleDefinition |-> bundleDefinition, name |-> bundleDefinition.name,
     sections |-> sections]

\* the analyzer instance as constructed: no analysis was started
AnalyzerIdle ==
    /\ busy = FALSE
    /\ info = 0
    /\ conditional = FALSE
    /\ promises = <<>>
    /\ finds = <<>>
    /\ infos = <<>>
    /\ calls = <<>>
    /\ depLog = {}

\* the module lists of the sections of a bundle definition with n sections
ModuleLists(n) ==
    {f \in [1..n -> SeqsUpTo(ModuleNames, MaxModules)] : SumLen(f) <= MaxModules}

\* mutant: the check for a Provided section is missing
IsProvidedNever(section) == FALSE

\* section.mode === SectionType.Provided
IsProvided(section) == SectionMode(section) = SectionType.Provided

\* mutant: the flag is set for every Raw section, also an empty one
SetsRawFlagAnyRaw(section) ==
    SectionMode(section) = SectionType.Raw

\* section.mode == SectionType.Raw && section.modules.length
SetsRawFlag(section) ==
    SectionMode(section) = SectionType.Raw /\ Len(SectionModules(section)) > 0

\* the modules fetched for a Raw or Preload section, in the order of the
\* pool.getModuleInfo calls
FetchOrder(section) ==
    IF SectionMode(section) = SectionType.Preload
    THEN Sort(SectionModules(section))
    ELSE SectionModules(section)

\* mutant: section.modules.sort(), the list of the section is sorted in place
ModulesSortedInPlace(section) == FetchOrder(section)

\* section.modules after the callback: a Preload section's list is copied
\* (slice) before the copy is sorted, no list is written to
ModulesAfterFetch(section) == SectionModules(section)

\* mutant: the callback does not return the Promise.all, the chain does not wait
AllFulfilledNoWait(k) == TRUE

\* mutant: Promise.allSettled, a rejected call counts as done
AllFulfilledSettled(k) ==
    \A i \in 1..Len(lookups) : lookups[i].sec = k => lookups[i].state # "pending"

\* Promise.all over the calls of section k: fulfilled once each is fulfilled
AllFulfilled(k) ==
    \A i \in 1..Len(lookups) : lookups[i].sec = k => lookups[i].state = "ok"

\* new ResolvedBundleDefinition(bundleDefinition), for a definition of n
\* sections with the given modes and module lists
Constructed(n, modes, mods) ==
    /\ sectionDefs = [i \in 1..n |-> [mode |-> modes[i], modules |-> mods[i]]]
    /\ bundleDefinition = [name |-> BundleName, sections |-> [i \in 1..n |-> i]]
    /\ sections = ResolveSections([i \in 1..n |-> i])
    /\ bundleInfo = NewModuleInfo(<<>>)
    /\ pc = "idle"
    /\ cur = 0
    /\ lookups = <<>>
    /\ allRejected = <<>>
    /\ result = [state |-> "none"]
    /\ bundleLog = {}
    /\ AnalyzerIdle

BundleInit ==
    \E n \in 0..MaxSections :
      \E mods \in ModuleLists(n), modes \in [1..n -> Modes] :
        Constructed(n, modes, mods)

\* createModuleInfo(pool): the synchronous part builds the promise chain
CreateModuleInfo ==
    /\ pc = "idle"
    /\ bundleInfo' = NewModuleInfo(bundleDefinition.name)
    /\ pc' = "chain"
    /\ cur' = 1
    /\ result' = [state |-> "pending"]
    /\ UNCHANGED analyzerVars
    /\ UNCHANGED <<sectionDefs, bundleDefinition, sections, lookups, allRejected,
                   bundleLog>>

\* the then-callback of section cur
RunSection ==
    /\ pc = "chain"
    /\ cur <= Len(sections)
    /\ LET section == sections[cur]
           mode == SectionMode(section)
       IN
       IF IsProvided(section)
       THEN /\ cur' = cur + 1
            /\ UNCHANGED <<bundleInfo, pc, lookups, allRejected, bundleLog, sections>>
       ELSE IF mode = SectionType.Require
       THEN /\ bundleInfo' = AddDependencies(bundleInfo, SectionModules(section))
            /\ bundleLog' = bundleLog \cup
                 {[kind |-> "dep", sec |-> cur, module |-> m] :
                      m \in Range(SectionModules(section))}
            /\ cur' = cur + 1
            /\ UNCHANGED <<pc, lookups, allRejected, sections>>
       ELSE /\ bundleInfo' =
                 IF SetsRawFlag(section)
                 THEN [bundleInfo EXCEPT !.rawModule = TRUE]
                 ELSE bundleInfo
            /\ bundleLog' =
                 IF SetsRawFlag(section)
                 THEN bundleLog \cup {[kind |-> "raw", sec |-> cur, module |-> <<>>]}
                 ELSE bundleLog
            /\ lookups' = lookups \o
                 [i \in 1..Len(FetchOrder(section)) |->
                     [sec |-> cur, pos |-> i, module |-> FetchOrder(section)[i],
                      state |-> "pending"]]
            /\ sections' = [sections EXCEPT ![cur].modules = ModulesAfterFetch(section)]
            /\ allRejected' = <<>>
            /\ pc' = "waiting"
            /\ UNCHANGED cur
    /\ UNCHANGED analyzerVars
    /\ UNCHANGED <<sectionDefs, bundleDefinition, result>>

\* pool.getModuleInfo(submodule) fulfils: (subinfo) => bundleInfo.addSubModule(subinfo)
GetModuleInfoOk(i) ==
    /\ lookups[i].state = "pending"
    /\ lookups' = [lookups EXCEPT ![i].state = "ok"]
    /\ bundleInfo' = AddSubModule(bundleInfo, lookups[i].module)
    /\ bundleLog' = bundleLog \cup
         {[kind |-> "sub", sec |-> lookups[i].sec, module |-> lookups[i].module,
           at |-> Len(bundleInfo.subModules) + 1, pos |-> lookups[i].pos]}
    /\ UNCHANGED analyzerVars
    /\ UNCHANGED <<sectionDefs, bundleDefinition, sections, pc, cur, allRejected,
                   result>>

\* pool.getModuleInfo(submodule) rejects: Promise.all rejects with the first
\* rejection of its calls
GetModuleInfoFail(i) ==
    /\ lookups[i].state = "pending"
    /\ lookups' = [lookups EXCEPT ![i].state = "failed"]
    /\ allRejected' = IF allRejected = <<>> THEN <<i>> ELSE allRejected
    /\ UNCHANGED analyzerVars
    /\ UNCHANGED <<sectionDefs, bundleDefinition, sections, bundleInfo, pc, cur,
                   result, bundleLog>>

\* the Promise.all of section cur fulfils: the chain goes on to the next section
SectionJoin ==
    /\ pc = "waiting"
    /\ AllFulfilled(cur)
    /\ pc' = "chain"
    /\ cur' = cur + 1
    /\ UNCHANGED analyzerVars
    /\ UNCHANGED <<sectionDefs, bundleDefinition, sections, bundleInfo, lookups,
                   allRejected, result, bundleLog>>

\* the Promise.all of section cur rejects: the callbacks of the later sections
\* and the final then(() => bundleInfo) are skipped, the returned promise rejects
SectionReject ==
    /\ pc = "waiting"
    /\ allRejected # <<>>
    /\ pc' = "rejected"
    /\ result' = [state |-> "rejected", reason |-> allRejected[1]]
    /\ UNCHANGED analyzerVars
    /\ UNCHANGED <<sectionDefs, bundleDefinition, sections, bundleInfo, cur,
                   lookups, allRejected, bundleLog>>

\* promise.then(() => bundleInfo)
Finish ==
    /\ pc = "chain"
    /\ cur > Len(sections)
    /\ pc' = "resolved"
    /\ result' = [state |-> "resolved", value |-> bundleInfo]
    /\ UNCHANGED analyzerVars
    /\ UNCHANGED <<sectionDefs, bundleDefinition, sections, bundleInfo, cur,
                   lookups, allRejected, bundleLog>>

BundleNext ==
    \/ CreateModuleInfo
    \/ RunSection
    \/ \E i \in 1..Len(lookups) : GetModuleInfoOk(i)
    \/ \E i \in 1..Len(lookups) : GetModuleInfoFail(i)
    \/ SectionJoin
    \/ SectionReject
    \/ Finish

BundleSpec ==
    BundleInit /\ [][BundleNext]_vars

\* bundles with a Require section, a Raw section and up to MaxSections - 1
\* further sections, every section listing at most one module
OrderInit ==
    \E n \in 2..(MaxSections + 1) :
      \E mods \in [1..n -> SeqsUpTo(ModuleNames, 1)], modes \in [1..n -> Modes] :
        /\ \E i, j \in 1..n :
              modes[i] = SectionType.Require /\ modes[j] = SectionType.Raw
        /\ Constructed(n, modes, mods)

OrderSpec ==
    OrderInit /\ [][BundleNext]_vars

\* ---- changes to the bundle definition after the ResolvedBundleDefinition
\* was constructed (the definition is a plain mutable object of the caller) ----

\* bundleDefinition.sections.push({mode, modules})
PushSection(mode, modules) ==
    /\ pc = "idle"
    /\ Len(sectionDefs) < MaxSections
    /\ SumLen([i \in 1..Len(sectionDefs) |-> sectionDefs[i].modules]) + Len(modules)
           <= MaxModules
    /\ sectionDefs' = Append(sectionDefs, [mode |-> mode, modules |-> modules])
    /\ bundleDefinition' =
         [bundleDefinition EXCEPT !.sections = Append(@, Len(sectionDefs) + 1)]
    /\ UNCHANGED analyzerVars
    /\ UNCHANGED <<sections, bundleInfo, pc, cur, lookups, allRejected, result,
                   bundleLog>>

\* bundleDefinition.sections.splice(k - 1, 1)
RemoveSection(k) ==
    /\ pc = "idle"
    /\ k \in 1..Len(bundleDefinition.sections)
    /\ bundleDefinition' =
         [bundleDefinition EXCEPT !.sections =
             SubSeq(@, 1, k - 1) \o SubSeq(@, k + 1, Len(@))]
    /\ UNCHANGED analyzerVars
    /\ UNCHANGED <<sectionDefs, sections, bundleInfo, pc, cur, lookups, allRejected,
                   result, bundleLog>>

\* bundleDefinition.sections[k - 1].mode = mode
SetMode(k, mode) ==
    /\ pc = "idle"
    /\ k \in 1..Len(bundleDefinition.sections)
    /\ sectionDefs[bundleDefinition.sections[k]].mode # mode
    /\ sectionDefs' = [sectionDefs EXCEPT ![bundleDefinition.sections[k]].mode = mode]
    /\ UNCHANGED analyzerVars
    /\ UNCHANGED <<bundleDefinition, sections, bundleInfo, pc, cur, lookups,
                   allRejected, result, bundleLog>>

\* a ResolvedBundleDefinition whose definition is changed by its owner
DefinitionNext ==
    \/ \E mode \in Modes, modules \in SeqsUpTo(ModuleNames, 1) :
          PushSection(mode, modules)
    \/ \E k \in 1..MaxSections : RemoveSection(k)
    \/ \E k \in 1..MaxSections, mode \in Modes : SetMode(k, mode)

DefinitionSpec ==
    BundleInit /\ [][DefinitionNext]_vars

-----------------------------------------------------------------------------
(* Markup dependency analyzer: src/lib/lbt/analyzer/XMLTemplateAnalyzer.js *)

XHTML_NAMESPACE == <<"http://www.w3.org/1999/xhtml">>
SVG_NAMESPACE == <<"http://www.w3.org/2000/svg">>
TEMPLATING_NAMESPACE ==
    <<"http://schemas.sap.com/sapui5/extension/sap.ui.core.template/1">>

\* /^(?:if|repeat)$/
TEMPLATING_CONDITONAL_TAGS(localName) == localName \in {"if", "repeat"}

\* the tokens matching [a-zA-Z_$][a-zA-z0-9_$]* among those the model uses
Identifiers == {"sap", "m", "ui", "core", "mvc", "my", "Frag", "Main", "i18n", "comp"}

\* /^([a-zA-Z_$][a-zA-z0-9_$]*(\.[a-zA-Z_$][a-zA-z0-9_$]*)*)$/
PATTERN_LIBRARY_NAMESPACES(namespace) ==
    /\ Len(namespace) % 2 = 1
    /\ \A i \in 1..Len(namespace) :
          IF i % 2 = 1 THEN namespace[i] \in Identifiers ELSE namespace[i] = "."

COMPONENTCONTAINER_MODULE == <<"sap", "/", "ui", "/", "core", "/", "ComponentContainer", ".js">>
COMPONENTCONTAINER_COMPONENTNAME_ATTRIBUTE == "name"
FRAGMENTDEFINITION_MODULE == <<"sap", "/", "ui", "/", "core", "/", "FragmentDefinition", ".js">>
FRAGMENT_MODULE == <<"sap", "/", "ui", "/", "core", "/", "Fragment", ".js">>
FRAGMENT_FRAGMENTNAME_ATTRIBUTE == "fragmentName"
FRAGMENT_TYPE_ATTRIBUTE == "type"
HTMLVIEW_MODULE == <<"sap", "/", "ui", "/", "core", "/", "mvc", "/", "HTMLView", ".js">>
JSVIEW_MODULE == <<"sap", "/", "ui", "/", "core", "/", "mvc", "/", "JSView", ".js">>
JSONVIEW_MODULE == <<"sap", "/", "ui", "/", "core", "/", "mvc", "/", "JSONView", ".js">>
XMLVIEW_MODULE == <<"sap", "/", "ui", "/", "core", "/", "mvc", "/", "XMLView", ".js">>
ANYVIEW_VIEWNAME_ATTRIBUTE == "viewName"
XMLVIEW_CONTROLLERNAME_ATTRIBUTE == "controllerName"
XMLVIEW_RESBUNDLENAME_ATTRIBUTE == "resourceBundleName"

\* null, and the empty string (both falsy)
Null == <<>>

\* getAttribute(node, attr): the value, or null when absent or empty
getAttribute(node, attr) ==
    IF attr \in DOMAIN node.attrs /\ node.attrs[attr] # <<>>
    THEN node.attrs[attr] ELSE Null

\* ModuleName.fromUI5LegacyName(name, suffix): dots become slashes, the suffix
\* (default ".js") is appended
fromUI5LegacyName(name, suffix) ==
    [i \in 1..Len(name) |-> IF name[i] = "." THEN "/" ELSE name[i]]
        \o (IF suffix = Null THEN <<".js">> ELSE suffix)

\* String.prototype.toLowerCase on the attribute values the model uses
toLowerCase(str) ==
    [i \in 1..Len(str) |->
        CASE str[i] = "XML" -> "xml"
          [] str[i] = "JS" -> "js"
          [] OTHER -> str[i]]

\* _getFragmentExtension(type)
getFragmentExtension(type) == <<".fragment.">> \o toLowerCase(type)

\* mutant: the check for a self reference is missing
SelfReferenceNever(mi, moduleName) == FALSE

\* if ( this.info.name === moduleName ) return;
SelfReference(mi, moduleName) == mi.name = moduleName

\* _addDependency(moduleName), on ModuleInfo mi with this.conditional = cond
addDependency(mi, moduleName, cond) ==
    IF SelfReference(mi, moduleName) THEN mi ELSE AddDependency(mi, moduleName, cond)

RECURSIVE addDependencies(_, _, _)
addDependencies(mi, names, cond) ==
    IF names = <<>> THEN mi
    ELSE addDependencies(addDependency(mi, Head(names), cond), Tail(names), cond)

\* the module names the then-callback of findResource(moduleName) passes to
\* _addDependency, in order: the module and its secondary reference
CallbackDependencies(moduleName, node) ==
    <<moduleName>> \o
    (IF moduleName = COMPONENTCONTAINER_MODULE
     THEN LET componentName == getAttribute(node, COMPONENTCONTAINER_COMPONENTNAME_ATTRIBUTE)
          IN IF componentName # Null
             THEN <<fromUI5LegacyName(componentName, <<"/", "Component", ".js">>)>>
             ELSE <<>>
     ELSE IF moduleName = FRAGMENT_MODULE
     THEN LET fragmentName == getAttribute(node, FRAGMENT_FRAGMENTNAME_ATTRIBUTE)
              type == getAttribute(node, FRAGMENT_TYPE_ATTRIBUTE)
          IN IF fragmentName # Null /\ type # Null
             THEN <<fromUI5LegacyName(fragmentName, getFragmentExtension(type))>>
             ELSE <<>>
     ELSE IF moduleName \in {HTMLVIEW_MODULE, JSVIEW_MODULE, JSONVIEW_MODULE, XMLVIEW_MODULE}
     THEN LET viewName == getAttribute(node, ANYVIEW_VIEWNAME_ATTRIBUTE)
          IN IF viewName # Null
             THEN <<fromUI5LegacyName(viewName,
                       CASE moduleName = HTMLVIEW_MODULE -> <<".view.html">>
                         [] moduleName = JSVIEW_MODULE -> <<".view.js">>
                         [] moduleName = JSONVIEW_MODULE -> <<".view.json">>
                         [] OTHER -> <<".view.xml">>)>>
             ELSE <<>>
     ELSE <<>>)

\* _analyzeNode and _analyzeChildren. st is the traversal's state: this.conditional
\* and the findResource calls pushed to this.promises. scoped (history) tells
\* whether the node lies strictly inside an if/repeat subtree.
RECURSIVE analyzeNode(_, _, _)
RECURSIVE analyzeChildren(_, _, _)
analyzeNode(node, st, scoped) ==
    LET namespace == node.ns
        localName == node.local
        oldConditional == st.conditional
        isTag == namespace = TEMPLATING_NAMESPACE /\ TEMPLATING_CONDITONAL_TAGS(localName)
        moduleName == fromUI5LegacyName(
            (IF namespace # <<>> THEN namespace \o <<".">> ELSE <<>>) \o <<localName>>, Null)
        st1 ==
            IF namespace = TEMPLATING_NAMESPACE
            THEN (IF TEMPLATING_CONDITONAL_TAGS(localName)
                  THEN [st EXCEPT !.conditional = TRUE] ELSE st)
            ELSE IF namespace = XHTML_NAMESPACE \/ namespace = SVG_NAMESPACE
            THEN st
            ELSE IF PATTERN_LIBRARY_NAMESPACES(namespace)
            THEN (IF FRAGMENTDEFINITION_MODULE # moduleName
                  THEN [st EXCEPT !.launched =
                           Append(@, [moduleName |-> moduleName,
                                      node |-> [attrs |-> node.attrs],
                                      scoped |-> scoped])]
                  ELSE st)
            ELSE st
        st2 == analyzeChildren(node.children, st1, scoped \/ isTag)
    IN  [st2 EXCEPT !.conditional = oldConditional]

\* mutant: the children of a node are not analyzed
analyzeChildrenNone(children, st, scoped) == st

analyzeChildren(children, st, scoped) ==
    IF children = <<>> THEN st
    ELSE analyzeChildren(Tail(children), analyzeNode(Head(children), st, scoped), scoped)

\* _analyzeViewRootNode: mi is this.info
analyzeViewRootNode(node, st) ==
    LET mi0 == AddImplicitDependency(st.mi, XMLVIEW_MODULE)
        controllerName == getAttribute(node, XMLVIEW_CONTROLLERNAME_ATTRIBUTE)
        mi1 == IF controllerName # Null
               THEN addDependency(mi0, fromUI5LegacyName(controllerName, <<".controller.js">>),
                                  st.conditional)
               ELSE mi0
        resourceBundleName == getAttribute(node, XMLVIEW_RESBUNDLENAME_ATTRIBUTE)
        mi2 == IF resourceBundleName # Null
               THEN addDependency(mi1, fromUI5LegacyName(resourceBundleName, <<".properties">>),
                                  st.conditional)
               ELSE mi1
    IN  analyzeChildren(node.children, [st EXCEPT !.mi = mi2], FALSE)

\* the parse callback of _analyze for a well-formed document
analyzeRoot(root, mi, isFragment) ==
    LET st0 == [conditional |-> FALSE, launched |-> <<>>, mi |-> mi]
    IN  IF isFragment
        THEN analyzeNode(root, [st0 EXCEPT !.mi = AddImplicitDependency(mi, FRAGMENT_MODULE)],
                         FALSE)
        ELSE analyzeViewRootNode(root, st0)

\* ---- inputs ----

NoAttrs == [a \in {} |-> <<>>]
Node(ns, local, attrs, children) ==
    [ns |-> ns, local |-> local, attrs |-> attrs, children |-> children]

SAP_M == <<"sap", ".", "m">>
SAP_UI_CORE == <<"sap", ".", "ui", ".", "core">>
SAP_UI_CORE_MVC == <<"sap", ".", "ui", ".", "core", ".", "mvc">>

\* the node kinds of the generated trees: <template:if>, <html:div>, <m:Button>,
\* <core:Fragment fragmentName="my.Frag" type="XML">, <core:FragmentDefinition>,
\* <mvc:View controllerName="my.Main">
NodeKinds ==
    { [ns |-> TEMPLATING_NAMESPACE, local |-> "if", attrs |-> NoAttrs],
      [ns |-> XHTML_NAMESPACE, local |-> "div", attrs |-> NoAttrs],
      [ns |-> SAP_M, local |-> "Button", attrs |-> NoAttrs],
      [ns |-> SAP_UI_CORE, local |-> "Fragment",
       attrs |-> [fragmentName |-> <<"my", ".", "Frag">>, type |-> <<"XML">>]],
      [ns |-> SAP_UI_CORE, local |-> "FragmentDefinition", attrs |-> NoAttrs],
      [ns |-> SAP_UI_CORE_MVC, local |-> "View",
       attrs |-> [controllerName |-> <<"my", ".", "Main">>]] }

\* the trees of exactly n nodes, and the sequences of trees of n nodes in total
RECURSIVE TreesOfSize(_)
RECURSIVE ForestsOfSize(_)
TreesOfSize(n) ==
    {Node(k.ns, k.local, k.attrs, f) : k \in NodeKinds, f \in ForestsOfSize(n - 1)}
ForestsOfSize(n) ==
    IF n = 0 THEN {<<>>}
    ELSE UNION {{<<t>> \o f : t \in TreesOfSize(k), f \in ForestsOfSize(n - k)} :
                    k \in 1..n}

Trees == UNION {TreesOfSize(n) : n \in 1..MaxNodes}

\* hand-written documents with the node kinds the generated trees leave out
Leaf(ns, local, attrs) == Node(ns, local, attrs, <<>>)
Documents ==
    { \* a view with controller and resource bundle, a repeat around a
      \* ComponentContainer, and an XMLView beside it
      Node(SAP_UI_CORE_MVC, "View",
           [controllerName |-> <<"my", ".", "Main">>,
            resourceBundleName |-> <<"my", ".", "i18n">>],
           << Node(TEMPLATING_NAMESPACE, "repeat", NoAttrs,
                   << Leaf(SAP_UI_CORE, "ComponentContainer",
                           [name |-> <<"my", ".", "comp">>]) >>),
              Leaf(SAP_UI_CORE_MVC, "XMLView", [viewName |-> <<"my", ".", "Main">>]) >>),
      \* a fragment definition with svg content, a non-conditional templating
      \* tag, a node of an unknown namespace and one without namespace
      Node(SAP_UI_CORE, "FragmentDefinition", NoAttrs,
           << Node(SVG_NAMESPACE, "svg", NoAttrs,
                   << Leaf(SAP_M, "Button", NoAttrs) >>),
              Node(TEMPLATING_NAMESPACE, "with", NoAttrs,
                   << Leaf(SAP_UI_CORE_MVC, "JSView", [viewName |-> <<"my", ".", "Main">>]) >>),
              Node(<<"urn:other">>, "thing", NoAttrs,
                   << Leaf(<<>>, "plain", NoAttrs) >>) >>),
      \* the same control inside and outside of an if
      Node(SAP_M, "Page", NoAttrs,
           << Node(TEMPLATING_NAMESPACE, "if", NoAttrs,
                   << Leaf(SAP_M, "Button", NoAttrs) >>),
              Leaf(SAP_M, "Button", NoAttrs) >>) }

\* xml strings: malformed, or the serialisation of a tree
Malformed == [malformed |-> TRUE, root |-> <<>>]
WellFormed(T) == {[malformed |-> FALSE, root |-> t] : t \in T}

\* the ModuleInfo objects handed to the analyzer: their names
InfoNames ==
    << <<"my", "/", "Frag", ".fragment.", "xml">>,
       <<"sap", "/", "m", "/", "Button", ".js">> >>

AnalyzerInit ==
    /\ busy = FALSE
    /\ info = 0
    /\ conditional = FALSE
    /\ promises = <<>>
    /\ finds = <<>>
    /\ infos = [k \in 1..Len(InfoNames) |-> NewModuleInfo(InfoNames[k])]
    /\ calls = <<>>
    /\ depLog = {}

\* createModuleInfo was not called
BundleIdle ==
    /\ sectionDefs = <<>>
    /\ bundleDefinition = [name |-> BundleName, sections |-> <<>>]
    /\ sections = <<>>
    /\ bundleInfo = NewModuleInfo(<<>>)
    /\ pc = "idle"
    /\ cur = 0
    /\ lookups = <<>>
    /\ allRejected = <<>>
    /\ result = [state |-> "none"]
    /\ bundleLog = {}

\* ---- operations ----

\* mutant: the busy check is missing
IsBusyNever == FALSE

\* if ( this.busy )
IsBusy == busy

\* xml2js parseString: an error, or the root node
ParseError(xml) == xml.malformed

\* mutant: the error branch of the parse callback leaves the busy flag set
BusyAfterParseErrorKept == TRUE

\* if ( err ) { this.busy = false; reject(err); return; }
BusyAfterParseError == FALSE

\* mutant: Promise.race, the first promise settled
AllSettledFirst(joined) == joined = <<>> \/ finds[joined[1]].state # "pending"

\* mutant: no rejection handler, a lookup that is not found is never joined
AllSettledFoundOnly(joined) == \A i \in Range(joined) : finds[i].state = "found"

\* Promise.all(this.promises) of a call: all its findResource promises settled
\* (the rejection handler turns a rejection into a fulfilment)
AllSettled(joined) == \A i \in Range(joined) : finds[i].state # "pending"

Call(xml, k, isFragment, state, joined) ==
    [xml |-> xml, info |-> k, isFragment |-> isFragment, state |-> state,
     joined |-> joined, value |-> 0]

\* analyzeView(xml, info) / analyzeFragment(xml, info): _analyze up to the end
\* of the parse callback (parseString calls back synchronously)
Analyze(xml, k, isFragment) ==
    /\ UNCHANGED bundleVars
    /\ IF IsBusy
       THEN \* throw new Error("analyzer is busy")
            /\ calls' = Append(calls, Call(xml, k, isFragment, "threw", <<>>))
            /\ UNCHANGED <<busy, info, conditional, promises, finds, infos, depLog>>
       ELSE IF ParseError(xml)
       THEN /\ info' = k
            /\ conditional' = FALSE
            /\ promises' = <<>>
            /\ busy' = BusyAfterParseError
            /\ calls' = Append(calls, Call(xml, k, isFragment, "rejected", <<>>))
            /\ UNCHANGED <<finds, infos, depLog>>
       ELSE LET st == analyzeRoot(xml.root, infos[k], isFragment)
                n == Len(st.launched)
                joined == [i \in 1..n |-> Len(finds) + i]
            IN  /\ info' = k
                /\ conditional' = st.conditional
                /\ promises' = joined
                /\ busy' = TRUE
                /\ finds' = finds \o
                     [i \in 1..n |->
                         [call |-> Len(calls) + 1, info |-> k, state |-> "pending",
                          moduleName |-> st.launched[i].moduleName,
                          node |-> st.launched[i].node,
                          scoped |-> st.launched[i].scoped]]
                /\ infos' = [infos EXCEPT ![k] = st.mi]
                /\ calls' = Append(calls, Call(xml, k, isFragment, "pending", joined))
                /\ UNCHANGED depLog

\* findResource(moduleName) fulfils: the then-callback, on this.info and
\* this.conditional as they are now
LookupFound(i) ==
    /\ i \in 1..Len(finds)
    /\ finds[i].state = "pending"
    /\ LET names == CallbackDependencies(finds[i].moduleName, finds[i].node)
       IN  /\ infos' = [infos EXCEPT ![info] = addDependencies(@, names, conditional)]
           /\ depLog' = depLog \cup
                {[find |-> i, module |-> names[j], cond |-> conditional, info |-> info] :
                     j \in {j \in 1..Len(names) : ~SelfReference(infos[info], names[j])}}
    /\ finds' = [finds EXCEPT ![i].state = "found"]
    /\ UNCHANGED <<busy, info, conditional, promises, calls>>
    /\ UNCHANGED bundleVars

\* mutant: the rejection handler records the dependency all the same
LookupNotFoundRecords(i) ==
    /\ i \in 1..Len(finds)
    /\ finds[i].state = "pending"
    /\ finds' = [finds EXCEPT ![i].state = "notfound"]
    /\ infos' = [infos EXCEPT ![info] =
                    addDependency(@, finds[i].moduleName, conditional)]
    /\ UNCHANGED <<busy, info, conditional, promises, calls, depLog>>
    /\ UNCHANGED bundleVars

\* findResource(moduleName) rejects: (err) => { ignore missing resources }
LookupNotFound(i) ==
    /\ i \in 1..Len(finds)
    /\ finds[i].state = "pending"
    /\ finds' = [finds EXCEPT ![i].state = "notfound"]
    /\ UNCHANGED <<busy, info, conditional, promises, infos, calls, depLog>>
    /\ UNCHANGED bundleVars

\* Promise.all(this.promises).then( () => { this.busy = false; resolve(info); } )
Complete(c) ==
    /\ c \in 1..Len(calls)
    /\ calls[c].state = "pending"
    /\ AllSettled(calls[c].joined)
    /\ busy' = FALSE
    /\ calls' = [calls EXCEPT ![c].state = "resolved", ![c].value = calls[c].info]
    /\ UNCHANGED <<info, conditional, promises, finds, infos, depLog>>
    /\ UNCHANGED bundleVars

\* the ModuleInfo objects of a single analysis: those of InfoNames and one
\* named like the controller of the views
AnalysisInfoNames ==
    InfoNames \o << <<"my", "/", "Main", ".controller.js">> >>

\* one analysis of a generated tree or a document on a fresh analyzer
AnalysisInit ==
    /\ busy = FALSE
    /\ info = 0
    /\ conditional = FALSE
    /\ promises = <<>>
    /\ finds = <<>>
    /\ infos = [k \in 1..Len(AnalysisInfoNames) |-> NewModuleInfo(AnalysisInfoNames[k])]
    /\ calls = <<>>
    /\ depLog = {}
    /\ BundleIdle

AnalyzeOnce ==
    /\ calls = <<>>
    /\ \E xml \in WellFormed(Trees \cup Documents), k \in 1..Len(AnalysisInfoNames),
          isFragment \in BOOLEAN :
          Analyze(xml, k, isFragment)

AnalysisNext ==
    \/ AnalyzeOnce
    \/ \E i \in 1..Len(finds) : LookupFound(i)
    \/ \E i \in 1..Len(finds) : LookupNotFound(i)
    \/ \E c \in 1..Len(calls) : Complete(c)

AnalysisSpec == AnalysisInit /\ [][AnalysisNext]_vars

\* repeated use of one analyzer instance: the documents of the calls
ReuseDocuments ==
    { Node(SAP_UI_CORE, "FragmentDefinition", NoAttrs,
           << Node(TEMPLATING_NAMESPACE, "if", NoAttrs,
                   << Leaf(SAP_M, "Button", NoAttrs) >>) >>),
      Node(SAP_UI_CORE_MVC, "View", [controllerName |-> <<"my", ".", "Main">>],
           << Leaf(SAP_UI_CORE, "Fragment",
                   [fragmentName |-> <<"my", ".", "Frag">>, type |-> <<"XML">>]) >>) }

\* no document of ReuseDocuments has more than two candidate nodes
MaxFinds == 2 * MaxCalls

ReuseInit == AnalyzerInit /\ BundleIdle

AnalyzeAgain ==
    /\ Len(calls) < MaxCalls
    /\ \E xml \in {Malformed} \cup WellFormed(ReuseDocuments), k \in 1..Len(InfoNames),
          isFragment \in BOOLEAN :
          Analyze(xml, k, isFragment)

ReuseNext ==
    \/ AnalyzeAgain
    \/ \E i \in 1..Len(finds) : LookupFound(i)
    \/ \E i \in 1..Len(finds) : LookupNotFound(i)
    \/ \E c \in 1..Len(calls) : Complete(c)

ReuseSpec == ReuseInit /\ [][ReuseNext]_vars

\* the pool settles every findResource call, and a promise callback that is
\* ready to run is run
FairReuseSpec ==
    /\ ReuseSpec
    /\ WF_vars(\E i \in 1..MaxFinds : LookupFound(i) \/ LookupNotFound(i))
    /\ WF_vars(\E c \in 1..MaxCalls : Complete(c))

-----------------------------------------------------------------------------
(* Properties of the bundle resolver *)

\* the section whose call attached the submodule at position p
SecAt(p) == (CHOOSE e \in bundleLog : e.kind = "sub" /\ e.at = p).sec

\* the submodules of the resolved ModuleInfo that section k attached, in order
RECURSIVE SubsFrom(_, _)
SubsFrom(k, p) ==
    IF p > Len(bundleInfo.subModules) THEN <<>>
    ELSE (IF SecAt(p) = k THEN <<bundleInfo.subModules[p]>> ELSE <<>>)
         \o SubsFrom(k, p + 1)
SubsOf(k) == SubsFrom(k, 1)

\* the sections of the bundle definition, as declared
DeclaredSection(k) == sectionDefs[bundleDefinition.sections[k]]
DeclaredCount == Len(bundleDefinition.sections)

\* C2: Preload determinism. When createModuleInfo has resolved, the submodules
\* of every Preload section are its modules in ascending sorted order, whatever
\* the declared order and whatever the completion order of getModuleInfo (so
\* two definitions listing the same modules give the same list).
C2_PreloadSubmodulesSorted ==
    pc = "resolved" =>
        \A k \in 1..DeclaredCount :
            DeclaredSection(k).mode = SectionType.Preload =>
                SubsOf(k) = Sort(DeclaredSection(k).modules)

\* C3: when createModuleInfo has resolved, the submodules of every Raw section
\* are its modules in declared order, whatever the completion order of
\* getModuleInfo.
C3_RawSubmodulesInDeclaredOrder ==
    pc = "resolved" =>
        \A k \in 1..DeclaredCount :
            DeclaredSection(k).mode = SectionType.Raw =>
                SubsOf(k) = DeclaredSection(k).modules

\* C4: sections are processed strictly in declared order. While a
\* getModuleInfo call of a section has not completed with its submodule
\* attached, no call was issued and nothing was written (dependency, raw flag,
\* submodule) for a later section; and the submodules of an earlier section
\* precede those of a later section in the submodule list.
C4_SectionsStrictlyInOrder ==
    /\ \A i \in 1..Len(lookups) :
          lookups[i].state # "ok" =>
              /\ \A j \in 1..Len(lookups) : lookups[j].sec <= lookups[i].sec
              /\ \A e \in bundleLog : e.sec <= lookups[i].sec
    /\ \A i \in 1..Len(lookups) :
          lookups[i].state = "ok" =>
              \E e \in bundleLog : /\ e.kind = "sub" /\ e.sec = lookups[i].sec
                                   /\ e.pos = lookups[i].pos
                                   /\ bundleInfo.subModules[e.at] = lookups[i].module
    /\ \A p, q \in 1..Len(bundleInfo.subModules) : p < q => SecAt(p) <= SecAt(q)

\* a resolution that fetched modules for two sections and attached them all
C4_Witness ==
    /\ pc = "resolved"
    /\ \E i, j \in 1..Len(lookups) : lookups[i].sec = 1 /\ lookups[j].sec = 2
    /\ \E e \in bundleLog : e.kind = "dep" \/ e.kind = "raw"

\* C9: once a getModuleInfo call has failed, the promise of createModuleInfo
\* never resolves with a ModuleInfo; it is rejected, or its rejection is the
\* next step of the chain, and the reason is the failure of a failed call,
\* whatever the other calls of the section do.
C9_FailureRejects ==
    (\E i \in 1..Len(lookups) : lookups[i].state = "failed") =>
        /\ result.state # "resolved"
        /\ result.state \in {"pending", "rejected"}
        /\ result.state = "pending" => ENABLED SectionReject
        /\ result.state = "rejected" => lookups[result.reason].state = "failed"

\* a rejected resolution in which another call of the failing section completed
\* and attached its submodule
C9_Witness ==
    /\ result.state = "rejected"
    /\ \E i \in 1..Len(lookups) :
          /\ lookups[i].state = "ok"
          /\ lookups[i].sec = lookups[result.reason].sec

\* C10: raw propagation. When createModuleInfo has resolved, the rawModule flag
\* of the ModuleInfo is set iff the definition has a Raw section listing at
\* least one module; no other section influences it.
C10_RawIffNonEmptyRawSection ==
    pc = "resolved" =>
        (result.value.rawModule <=>
            \E k \in 1..DeclaredCount :
                /\ DeclaredSection(k).mode = SectionType.Raw
                /\ Len(DeclaredSection(k).modules) > 0)

\* a resolved bundle marked raw that also has a section of another mode
C10_Witness ==
    /\ pc = "resolved"
    /\ result.value.rawModule
    /\ \E k \in 1..DeclaredCount : DeclaredSection(k).mode # SectionType.Raw

\* a resolved bundle whose only Raw section is empty
C10_WitnessEmptyRaw ==
    /\ pc = "resolved"
    /\ ~result.value.rawModule
    /\ \E k \in 1..DeclaredCount : DeclaredSection(k).mode = SectionType.Raw

\* C11: the callback of a Require section records every module the section
\* lists as an unconditional dependency of the bundle's ModuleInfo, issues no
\* pool call and attaches no submodule; no pool call and no submodule ever
\* belongs to a Require section, and the resolved ModuleInfo has the modules
\* of every Require section as unconditional dependencies.
C11_RequireRecordsDependencies ==
    /\ [][ ( /\ pc = "chain" /\ cur <= Len(sections)
             /\ SectionMode(sections[cur]) = SectionType.Require
             /\ cur' = cur + 1 )
           => /\ \A m \in Range(SectionModules(sections[cur])) :
                    /\ m \in bundleInfo'.dependencies
                    /\ m \notin bundleInfo'.conditionalDeps
              /\ lookups' = lookups
              /\ bundleInfo'.subModules = bundleInfo.subModules
              /\ bundleInfo'.rawModule = bundleInfo.rawModule
              /\ pc' = "chain"
         ]_vars
    /\ [](\A i \in 1..Len(lookups) :
             DeclaredSection(lookups[i].sec).mode # SectionType.Require)
    /\ [](\A e \in bundleLog :
             DeclaredSection(e.sec).mode = SectionType.Require => e.kind = "dep")
    /\ [](pc = "resolved" =>
             \A k \in 1..DeclaredCount :
                 DeclaredSection(k).mode = SectionType.Require =>
                     \A m \in Range(DeclaredSection(k).modules) :
                         /\ m \in result.value.dependencies
                         /\ m \notin result.value.conditionalDeps)

\* a resolved bundle with a Require section listing two modules
C11_Witness ==
    /\ pc = "resolved"
    /\ \E k \in 1..DeclaredCount :
          /\ DeclaredSection(k).mode = SectionType.Require
          /\ Cardinality(Range(DeclaredSection(k).modules)) = 2
          /\ Range(DeclaredSection(k).modules) = result.value.dependencies
    /\ lookups = <<>>
    /\ result.value.subModules = <<>>

\* the position of a resolved section in this.sections
PosOf(section) == CHOOSE k \in 1..Len(sections) : sections[k] = section

RECURSIVE AddSubModules(_, _)
AddSubModules(mi, subs) ==
    IF subs = <<>> THEN mi
    ELSE AddSubModules(AddSubModule(mi, Head(subs)), Tail(subs))

\* createModuleInfo as a function of the sections: the callbacks of the chain
\* applied to secs in order, the pool calls of a section completing in the
\* order in which they completed in the run
RECURSIVE Replay(_, _)
Replay(mi, secs) ==
    IF secs = <<>> THEN mi
    ELSE LET section == Head(secs)
             next ==
                 IF IsProvided(section) THEN mi
                 ELSE IF SectionMode(section) = SectionType.Require
                 THEN AddDependencies(mi, SectionModules(section))
                 ELSE AddSubModules(
                          IF SetsRawFlag(section)
                          THEN [mi EXCEPT !.rawModule = TRUE] ELSE mi,
                          SubsOf(PosOf(section)))
         IN  Replay(next, Tail(secs))

\* the pool calls createModuleInfo issues for the sections secs
PoolCalls(secs) ==
    UNION {{<<section.sectionDefinition, m>> : m \in Range(FetchOrder(section))} :
              section \in {t \in Range(secs) :
                              /\ ~IsProvided(t)
                              /\ SectionMode(t) # SectionType.Require}}

\* the sections that are left when every Provided section is removed
WithoutProvided(secs) ==
    SelectSeq(secs, LAMBDA section : SectionMode(section) # SectionType.Provided)

\* C12: Provided sections are inert. The callback of a Provided section
\* changes nothing; no pool call and no write belongs to a Provided section;
\* the resolved ModuleInfo and the pool calls issued are those of the
\* definition with every Provided section removed; and containsCore,
\* containsGlobal and executes(name) have the values they have for the
\* definition with every Provided section removed.
C12_ProvidedInert ==
    /\ [][ ( /\ pc = "chain" /\ cur <= Len(sections)
             /\ SectionMode(sections[cur]) = SectionType.Provided
             /\ cur' # cur )
           => /\ cur' = cur + 1
              /\ UNCHANGED <<bundleInfo, lookups, bundleLog, pc, result,
                             sectionDefs, bundleDefinition, sections>>
         ]_vars
    /\ [](\A i \in 1..Len(lookups) :
             DeclaredSection(lookups[i].sec).mode # SectionType.Provided)
    /\ [](\A e \in bundleLog :
             DeclaredSection(e.sec).mode # SectionType.Provided)
    /\ [](pc = "resolved" =>
             /\ result.value = Replay(NewModuleInfo(bundleDefinition.name),
                                      WithoutProvided(sections))
             /\ {<<sections[lookups[i].sec].sectionDefinition, lookups[i].module>> :
                    i \in 1..Len(lookups)} = PoolCalls(WithoutProvided(sections)))
    /\ [](LET without == [This EXCEPT !.sections = WithoutProvided(sections)]
          IN  /\ containsCore(This) = containsCore(without)
              /\ containsGlobal(This) = containsGlobal(without)
              /\ \A name \in ModuleNames :
                     executes(This, name) = executes(without, name))

\* a resolved bundle whose first section is a Provided section listing the
\* core module, followed by a section that contributed to the ModuleInfo
C12_Witness ==
    /\ pc = "resolved"
    /\ DeclaredCount = 2
    /\ DeclaredSection(1).mode = SectionType.Provided
    /\ DeclaredSection(1).modules = <<MODULE__SAP_UI_CORE_CORE>>
    /\ ~containsCore(This)
    /\ bundleLog # {}

\* C15: containsCore, containsGlobal and executes(name) have, in every state,
\* the value computed over the sections the bundle definition has in that
\* state, whatever sections were appended or removed and whatever modes were
\* changed since the ResolvedBundleDefinition was constructed.
C15_QueriesReflectDefinition ==
    /\ containsCore(This) <=>
          \E k \in 1..DeclaredCount :
              /\ DeclaredSection(k).mode \in {SectionType.Raw, SectionType.Require}
              /\ MODULE__SAP_UI_CORE_CORE \in Range(DeclaredSection(k).modules)
    /\ containsGlobal(This) <=>
          \E k \in 1..DeclaredCount :
              /\ DeclaredSection(k).mode = SectionType.Raw
              /\ MODULE__JQUERY_SAP_GLOBAL \in Range(DeclaredSection(k).modules)
    /\ \A name \in ModuleNames :
          executes(This, name) <=>
              \E k \in 1..DeclaredCount :
                  /\ DeclaredSection(k).mode \in {SectionType.Raw, SectionType.Require}
                  /\ name \in Range(DeclaredSection(k).modules)

\* the part of C15 that holds: a change of the mode of a section the
\* definition had at construction is reflected, as long as no section was
\* appended or removed
C15_ModeChangesReflected ==
    bundleDefinition.sections = [i \in 1..Len(sections) |-> sections[i].sectionDefinition]
        => C15_QueriesReflectDefinition

\* the sections with those at positions i and j swapped
SwapSections(secs, i, j) ==
    [k \in 1..Len(secs) |->
        IF k = i THEN secs[j] ELSE IF k = j THEN secs[i] ELSE secs[k]]

\* the pairs of positions of a Require section and a Raw section
RequireRawPairs ==
    {p \in (1..Len(sections)) \X (1..Len(sections)) :
        /\ SectionMode(sections[p[1]]) = SectionType.Require
        /\ SectionMode(sections[p[2]]) = SectionType.Raw}

\* the ModuleInfo createModuleInfo resolves with when the sections at the
\* positions of p are swapped and the pool behaves as in the run
Swapped(p) ==
    Replay(NewModuleInfo(bundleDefinition.name), SwapSections(sections, p[1], p[2]))

\* some section strictly between the positions of p attached a submodule
FetchesBetween(p) ==
    \E k \in 1..Len(sections) :
        /\ (p[1] < k /\ k < p[2]) \/ (p[2] < k /\ k < p[1])
        /\ SubsOf(k) # <<>>

\* C17 as stated: when createModuleInfo has resolved, swapping a Require
\* section and a Raw section of the bundle gives the same dependency set, the
\* same rawModule flag and the same submodule list.
C17_SwapRequireRawSameOutcome ==
    pc = "resolved" =>
        \A p \in RequireRawPairs :
            /\ Swapped(p).dependencies = result.value.dependencies
            /\ Swapped(p).conditionalDeps = result.value.conditionalDeps
            /\ Swapped(p).rawModule = result.value.rawModule
            /\ Swapped(p).subModules = result.value.subModules

\* C17, amended: when createModuleInfo has resolved, swapping a Require
\* section and a Raw section gives the same dependency set, the same rawModule
\* flag and the same submodules; the submodule list is the same list when the
\* Raw section lists no module or no section between the two attaches a
\* submodule (as in a bundle of just the two sections).
C17_SwapRequireRawAmended ==
    pc = "resolved" =>
        /\ result.value = Replay(NewModuleInfo(bundleDefinition.name), sections)
        /\ \A p \in RequireRawPairs :
              /\ Swapped(p).dependencies = result.value.dependencies
              /\ Swapped(p).conditionalDeps = result.value.conditionalDeps
              /\ Swapped(p).rawModule = result.value.rawModule
              /\ Len(Swapped(p).subModules) = Len(result.value.subModules)
              /\ \A m \in ModuleNames :
                     Cardinality({q \in 1..Len(Swapped(p).subModules) :
                                     Swapped(p).subModules[q] = m})
                       = Cardinality({q \in 1..Len(result.value.subModules) :
                                         result.value.subModules[q] = m})
              /\ (SubsOf(p[2]) = <<>> \/ ~FetchesBetween(p))
                     => Swapped(p).subModules = result.value.subModules

\* a resolved bundle of three sections, a Require and a Raw section with a
\* module each and a Preload section with a module after them: the swap
\* changes nothing
C17_Witness ==
    /\ pc = "resolved"
    /\ Len(sections) = 3
    /\ \E p \in RequireRawPairs :
          /\ p[1] < 3 /\ p[2] < 3
          /\ SectionModules(sections[p[1]]) # <<>>
          /\ SectionModules(sections[p[2]]) # <<>>
          /\ SectionMode(sections[3]) = SectionType.Preload
          /\ Len(result.value.subModules) = 2
          /\ result.value.subModules[1] # result.value.subModules[2]
          /\ Swapped(p) = result.value

\* C18: resolution aborts at the first failing section. Once a getModuleInfo
\* call of section k has failed, the chain stays at section k: no call was and
\* no call ever is issued for a later section, and no dependency, raw flag or
\* submodule of a later section was or ever is applied.
C18_AbortsAtFirstFailure ==
    /\ [](\A i \in 1..Len(lookups) :
             lookups[i].state = "failed" =>
                 /\ cur = lookups[i].sec
                 /\ pc \in {"waiting", "rejected"}
                 /\ \A j \in 1..Len(lookups) : lookups[j].sec <= lookups[i].sec
                 /\ \A e \in bundleLog : e.sec <= lookups[i].sec)
    /\ [][ (\E i \in 1..Len(lookups) : lookups[i].state = "failed")
           => /\ cur' = cur
              /\ Len(lookups') = Len(lookups)
              /\ \A j \in 1..Len(lookups) :
                    /\ lookups'[j].sec = lookups[j].sec
                    /\ lookups'[j].module = lookups[j].module
              /\ bundleInfo'.dependencies = bundleInfo.dependencies
              /\ bundleInfo'.rawModule = bundleInfo.rawModule
              /\ \A e \in bundleLog' \ bundleLog : e.kind = "sub" /\ e.sec = cur
         ]_vars

\* a rejected resolution whose first section failed and whose second section
\* lists a module that was neither fetched nor recorded
C18_Witness ==
    /\ pc = "rejected"
    /\ lookups[result.reason].sec = 1
    /\ DeclaredCount = 2
    /\ DeclaredSection(2).mode # SectionType.Provided
    /\ DeclaredSection(2).modules # <<>>
    /\ \A e \in bundleLog : e.sec = 1
    /\ \A j \in 1..Len(lookups) : lookups[j].sec = 1

\* the modules of the pool calls issued for section k, in the order of the calls
RECURSIVE IssuedFrom(_, _)
IssuedFrom(k, i) ==
    IF i > Len(lookups) THEN <<>>
    ELSE (IF lookups[i].sec = k THEN <<lookups[i].module>> ELSE <<>>)
         \o IssuedFrom(k, i + 1)

\* C20: createModuleInfo does not change the bundle definition. No step of a
\* resolution, successful or failed, changes the mode or the module list of a
\* section or the list of sections; the module list of a Preload section keeps
\* its declared order though its modules were fetched in sorted order; hence
\* the pool calls a further resolution would issue for a section are those
\* this one issued.
C20_DefinitionNotMutated ==
    /\ [][ /\ sectionDefs' = sectionDefs
           /\ bundleDefinition' = bundleDefinition
           /\ sections' = sections ]_vars
    /\ [](\A k \in 1..Len(sections) :
             /\ SectionModules(sections[k]) = DeclaredSection(k).modules
             /\ (\E i \in 1..Len(lookups) : lookups[i].sec = k)
                    => IssuedFrom(k, 1) = FetchOrder(sections[k]))

\* a finished resolution that fetched the modules of a Preload section in
\* sorted order, the section still listing them in another, declared order
C20_Witness ==
    /\ pc \in {"resolved", "rejected"}
    /\ \E k \in 1..Len(sections) :
          /\ SectionMode(sections[k]) = SectionType.Preload
          /\ SectionModules(sections[k]) # Sort(SectionModules(sections[k]))
          /\ IssuedFrom(k, 1) = Sort(SectionModules(sections[k]))
          /\ DeclaredSection(k).modules = SectionModules(sections[k])

-----------------------------------------------------------------------------
(* Properties of the analyzer *)

\* C1: a candidate node strictly inside an if/repeat subtree whose findResource
\* call succeeds is recorded by an addDependency call with conditional = true,
\* for every order in which the calls settle.
C1_ScopedDependencyConditional ==
    \A i \in 1..Len(finds) :
        ( /\ finds[i].state = "found"
          /\ finds[i].scoped
          /\ finds[i].moduleName # infos[finds[i].info].name )
        => \E e \in depLog : /\ e.find = i
                             /\ e.module = finds[i].moduleName
                             /\ e.cond = TRUE

\* C5: a call on a busy analyzer throws synchronously and changes nothing: the
\* instance's info, conditional flag, promises and busy flag, the outstanding
\* lookups and every ModuleInfo are as before; the call is never queued, it
\* stays thrown and no lookup is ever issued for it.
C5_BusyCallThrows ==
    /\ [][ (Len(calls') = Len(calls) + 1 /\ busy) =>
              /\ calls'[Len(calls')].state = "threw"
              /\ SubSeq(calls', 1, Len(calls)) = calls
              /\ UNCHANGED <<busy, info, conditional, promises, finds, infos, depLog>>
         ]_vars
    /\ [][ \A c \in 1..Len(calls) : calls[c].state = "threw" => calls'[c] = calls[c] ]_vars
    /\ [](\A i \in 1..Len(finds) : calls[finds[i].call].state # "threw")

\* a call was rejected as busy and the analysis in flight went on to resolve
C5_Witness ==
    /\ Len(calls) = 2
    /\ calls[1].state = "resolved"
    /\ calls[2].state = "threw"
    /\ depLog # {}

\* C6: while a lookup launched by an analysis is outstanding, that analysis is
\* not resolved and the instance is busy.
C6_ResolvedOnlyAfterSettled ==
    \A i \in 1..Len(finds) :
        finds[i].state = "pending" =>
            /\ calls[finds[i].call].state = "pending"
            /\ busy

\* an analysis resolved after two of its lookups settled, one found, one not
C6_Witness ==
    \E c \in 1..Len(calls) :
        /\ calls[c].state = "resolved"
        /\ \E i, j \in Range(calls[c].joined) :
              finds[i].state = "found" /\ finds[j].state = "notfound"

\* C7: an analysis whose markup parsed, and whose lookups all settle,
\* eventually resolves; it resolves with the ModuleInfo passed in, and at that
\* moment the instance is not busy, so that a new analysis is accepted.
C7_EventuallyResolves ==
    /\ (\E c \in 1..Len(calls) : calls[c].state = "pending")
           ~> (\A c \in 1..Len(calls) : calls[c].state # "pending")
    /\ [][ \A c \in 1..Len(calls) :
              calls[c].state = "pending" =>
                  \/ calls'[c] = calls[c]
                  \/ /\ calls'[c] = [calls[c] EXCEPT !.state = "resolved",
                                                     !.value = calls[c].info]
                     /\ ~IsBusy'
         ]_vars

\* a second analysis was accepted after the first one resolved
C7_Witness ==
    /\ Len(calls) = 2
    /\ calls[1].state = "resolved" /\ calls[1].value = calls[1].info
    /\ calls[1].joined # <<>>
    /\ calls[2].state = "pending"

\* C13: self-reference exclusion. No ModuleInfo handed to the analyzer ever
\* has its own name among its dependencies (conditional ones included), and
\* no lookup callback passes the name of the ModuleInfo under
\* analysis to its addDependency, be it the name of the confirmed node or of
\* its secondary reference.
C13_NoSelfReference ==
    /\ \A k \in 1..Len(infos) :
          /\ infos[k].name \notin infos[k].dependencies
          /\ infos[k].name \notin infos[k].conditionalDeps
    /\ \A e \in depLog : e.module # infos[e.info].name

\* a resolved analysis in which the pool confirmed a node whose module name
\* is the name of the ModuleInfo, and another node that was recorded
C13_Witness ==
    /\ Len(calls) = 1 /\ calls[1].state = "resolved"
    /\ \E i \in 1..Len(finds) :
          /\ finds[i].state = "found"
          /\ finds[i].moduleName = infos[calls[1].info].name
    /\ \E e \in depLog : e.info = calls[1].info

\* a resolved analysis of a Fragment node whose fragment is the ModuleInfo
\* under analysis (a secondary reference)
C13_WitnessSecondary ==
    /\ Len(calls) = 1 /\ calls[1].state = "resolved"
    /\ \E i \in 1..Len(finds) :
          /\ finds[i].state = "found"
          /\ finds[i].moduleName = FRAGMENT_MODULE
          /\ infos[calls[1].info].name \in
                 Range(CallbackDependencies(finds[i].moduleName, finds[i].node))
          /\ FRAGMENT_MODULE \in infos[calls[1].info].dependencies

\* a resolved analysis of a view whose controller is the ModuleInfo under
\* analysis
C13_WitnessRoot ==
    /\ Len(calls) = 1 /\ calls[1].state = "resolved"
    /\ ~calls[1].isFragment
    /\ getAttribute(calls[1].xml.root, XMLVIEW_CONTROLLERNAME_ATTRIBUTE) # Null
    /\ fromUI5LegacyName(getAttribute(calls[1].xml.root, XMLVIEW_CONTROLLERNAME_ATTRIBUTE),
                         <<".controller.js">>) = infos[calls[1].info].name

\* C14: a call with markup that does not parse, made on an analyzer that is
\* not busy, is rejected; the step writes to no ModuleInfo (no implicit and no
\* explicit dependency) and launches no lookup, and leaves the analyzer not
\* busy. No lookup ever belongs to such a call, and while the last call is a
\* rejected one the analyzer is not busy, so that the next call is accepted.
C14_ParseFailureRejects ==
    /\ [][ (Len(calls') = Len(calls) + 1 /\ ~busy /\ ParseError(calls'[Len(calls')].xml))
           => /\ calls'[Len(calls')].state = "rejected"
              /\ calls'[Len(calls')].joined = <<>>
              /\ UNCHANGED <<infos, finds, depLog>>
              /\ ~busy'
         ]_vars
    /\ [](\A c \in 1..Len(calls) :
             calls[c].state = "rejected" <=>
                 (ParseError(calls[c].xml) /\ calls[c].state # "threw"))
    /\ [](\A i \in 1..Len(finds) : ~ParseError(calls[finds[i].call].xml))
    /\ []((calls # <<>> /\ calls[Len(calls)].state = "rejected") => ~IsBusy)
    /\ [][ \A c \in 1..Len(calls) : calls[c].state = "rejected" => calls'[c] = calls[c] ]_vars

\* a call was rejected for a parse failure, the ModuleInfo passed in is still
\* empty, and the next call on the instance was accepted
C14_Witness ==
    /\ Len(calls) = 2
    /\ calls[1].state = "rejected"
    /\ calls[2].state = "pending"
    /\ calls[2].info # calls[1].info
    /\ infos[calls[1].info] = NewModuleInfo(InfoNames[calls[1].info])
    /\ finds # <<>>

\* the candidate nodes of a subtree: library namespace, not FragmentDefinition
RECURSIVE CandidateCount(_)
RECURSIVE CandidateCountAll(_)
CandidateCount(node) ==
    (IF /\ node.ns \notin {TEMPLATING_NAMESPACE, XHTML_NAMESPACE, SVG_NAMESPACE}
        /\ PATTERN_LIBRARY_NAMESPACES(node.ns)
        /\ ~(node.ns = SAP_UI_CORE /\ node.local = "FragmentDefinition")
     THEN 1 ELSE 0) + CandidateCountAll(node.children)
CandidateCountAll(children) ==
    IF children = <<>> THEN 0
    ELSE CandidateCount(Head(children)) + CandidateCountAll(Tail(children))

\* C8: a lookup that is not found writes nothing (no dependency for the node,
\* none for its secondary references) and does not fail the analysis; a lookup
\* was launched for every candidate node, so children and later nodes are
\* analyzed all the same; and once all lookups have settled the analysis
\* resolves.
C8_NotFoundIgnored ==
    /\ [][ \A i \in 1..Len(finds) :
              (finds[i].state = "pending" /\ finds'[i].state = "notfound") =>
                  UNCHANGED <<infos, depLog, calls, busy, info, conditional>>
         ]_vars
    /\ [](\A e \in depLog : finds[e.find].state = "found")
    /\ [](\A c \in 1..Len(calls) :
             /\ calls[c].state \in {"pending", "resolved"}
             /\ Len(calls[c].joined) =
                    IF calls[c].isFragment
                    THEN CandidateCount(calls[c].xml.root)
                    ELSE CandidateCountAll(calls[c].xml.root.children)
             /\ (calls[c].state = "pending" /\ AllSettled(calls[c].joined))
                    => ENABLED Complete(c))

\* a resolved analysis in which a Fragment node was not found and a later node
\* (a child or a following node) was found and recorded
C8_Witness ==
    /\ Len(calls) = 1 /\ calls[1].state = "resolved"
    /\ \E i, j \in 1..Len(finds) :
          /\ i < j
          /\ finds[i].state = "notfound" /\ finds[i].moduleName = FRAGMENT_MODULE
          /\ finds[j].state = "found"
          /\ \E e \in depLog : e.find = j

\* a node of the XHTML or the SVG namespace
Passthrough(node) == node.ns = XHTML_NAMESPACE \/ node.ns = SVG_NAMESPACE

\* the module names of the candidate nodes of a subtree, in document order
RECURSIVE CandidateNames(_)
RECURSIVE CandidateNamesAll(_)
CandidateNames(node) ==
    (IF /\ node.ns # TEMPLATING_NAMESPACE
        /\ ~Passthrough(node)
        /\ PATTERN_LIBRARY_NAMESPACES(node.ns)
        /\ ~(node.ns = SAP_UI_CORE /\ node.local = "FragmentDefinition")
     THEN <<fromUI5LegacyName(node.ns \o <<".", node.local>>, Null)>>
     ELSE <<>>) \o CandidateNamesAll(node.children)
CandidateNamesAll(children) ==
    IF children = <<>> THEN <<>>
    ELSE CandidateNames(Head(children)) \o CandidateNamesAll(Tail(children))

\* the module name the analyzer would derive for a passthrough node
IsPassthroughName(moduleName) ==
    Head(moduleName) \in {XHTML_NAMESPACE[1], SVG_NAMESPACE[1]}

\* C16: passthrough transparency. No lookup is ever launched and no
\* dependency ever recorded for a node of the XHTML or SVG namespace; the
\* lookups of an analysis are those of the candidate nodes of the document, in
\* document order, the descendants of XHTML and SVG nodes included; and the
\* module of every lookup the pool confirmed is a dependency of the ModuleInfo
\* (unless it is the ModuleInfo itself).
C16_PassthroughTransparent ==
    /\ \A i \in 1..Len(finds) : ~IsPassthroughName(finds[i].moduleName)
    /\ \A k \in 1..Len(infos) :
          \A d \in infos[k].dependencies : ~IsPassthroughName(d)
    /\ \A c \in 1..Len(calls) :
          calls[c].state \in {"pending", "resolved"} =>
              [j \in 1..Len(calls[c].joined) |-> finds[calls[c].joined[j]].moduleName]
                  = IF calls[c].isFragment
                    THEN CandidateNames(calls[c].xml.root)
                    ELSE CandidateNamesAll(calls[c].xml.root.children)
    /\ \A i \in 1..Len(finds) :
          finds[i].state = "found" =>
              \/ finds[i].moduleName \in infos[finds[i].info].dependencies
              \/ finds[i].moduleName = infos[finds[i].info].name

\* the library-namespaced nodes below a passthrough node of a subtree
RECURSIVE BelowPassthrough(_, _)
RECURSIVE BelowPassthroughAll(_, _)
BelowPassthrough(node, below) ==
    (IF below THEN CandidateNames(Node(node.ns, node.local, node.attrs, <<>>)) ELSE <<>>)
        \o BelowPassthroughAll(node.children, below \/ Passthrough(node))
BelowPassthroughAll(children, below) ==
    IF children = <<>> THEN <<>>
    ELSE BelowPassthrough(Head(children), below)
             \o BelowPassthroughAll(Tail(children), below)

\* a resolved analysis of a document with a control below an XHTML or SVG
\* node: the pool confirmed the control and it was recorded
C16_Witness ==
    /\ Len(calls) = 1 /\ calls[1].state = "resolved"
    /\ \E m \in Range(BelowPassthroughAll(calls[1].xml.root.children, FALSE)) :
          /\ m \in infos[calls[1].info].dependencies
          /\ \E i \in 1..Len(finds) : finds[i].moduleName = m /\ finds[i].state = "found"

\* C19: no cross-analysis leakage. Over any sequence of calls on one
\* instance (calls that threw as busy and calls whose markup did not parse
\* included) and any order of lookup completions, every dependency a lookup
\* callback writes is written to the ModuleInfo of the call that launched the
\* lookup, and a callback changes no other ModuleInfo.
C19_NoCrossAnalysisLeakage ==
    /\ [](\A e \in depLog :
             /\ e.info = finds[e.find].info
             /\ e.info = calls[finds[e.find].call].info)
    /\ [][ \A i \in 1..Len(finds) :
              (finds[i].state = "pending" /\ finds'[i].state = "found") =>
                  /\ \A k \in 1..Len(infos) : k # finds[i].info => infos'[k] = infos[k]
                  /\ \A e \in depLog' \ depLog : e.find = i /\ e.info = finds[i].info
                  /\ infos'[finds[i].info] =
                         addDependencies(infos[finds[i].info],
                             CallbackDependencies(finds[i].moduleName, finds[i].node),
                             conditional)
         ]_vars

\* two analyses on one instance with different ModuleInfos, the second
\* accepted after the first resolved, and each wrote a dependency
C19_Witness ==
    /\ Len(calls) = 2
    /\ calls[1].state = "resolved" /\ calls[2].state = "resolved"
    /\ calls[1].info # calls[2].info
    /\ \E e, f \in depLog :
          /\ e.info = calls[1].info /\ finds[e.find].call = 1
          /\ f.info = calls[2].info /\ finds[f.find].call = 2

====
